---- MODULE Spec2Model ----
(***************************************************************************)
(* A model of src/utils/builder.py (DHD Builder): the stack compositor    *)
(* stack_dhd, the component mapper make_component_dict, the spreadsheet    *)
(* filler create_dhd_excel, the image embedder apply_dhd_on_excel and the  *)
(* orchestrator convert_DHD_report_to_excel.                               *)
(*                                                                         *)
(* Every function is a small state machine with its own program counter;   *)
(* the standalone specifications start one function on arbitrary inputs,   *)
(* SpecPipe starts the orchestrator, which calls them in turn.             *)
(***************************************************************************)
EXTENDS Integers, Sequences, FiniteSets, TLC

\* ------------------------------------------------------------------------
\* Bounds of the model
\* ------------------------------------------------------------------------
MaxLen == 3          \* longest order handed to stack_dhd on its own
MaxComps == 2        \* longest components list of the input JSON
MaxRows == 3         \* longest components list make_component_dict gets on its own

\* ------------------------------------------------------------------------
\* Program constants
\* ------------------------------------------------------------------------
DefaultGap == 6      \* stack_dhd(..., gap_pixels=6, ...)
PipelineGap == 8     \* stack_dhd(component_output, image_map, ..., gap_pixels=8)
start_row == 6       \* create_dhd_excel: start_row = 6

\* Python's None; no component name, item id or cell value equals it.
None == "None"

\* ------------------------------------------------------------------------
\* Values the inputs are drawn from
\* ------------------------------------------------------------------------
\* Canonical component names; "ghost" never has an image in the registry.
Names == {"packer", "bit", "ghost"}
RegistryNames == {"packer", "bit"}
\* Decoded images: only their size matters for the layout.
Images == {[width |-> 40, height |-> 100], [width |-> 7, height |-> 3]}
\* All registries: a name is absent or bound to one image source.
Mappings == UNION {[D -> Images] : D \in SUBSET RegistryNames}
GapChoices == {0, DefaultGap}
Labels == Names \cup {None}
Orders == UNION {[1..n -> Labels] : n \in 0..MaxLen}

\* Component Records of the extracted JSON.
ItemIds == {"1", "2", None}
ComponentRecord(id, mapped) ==
  [item_id |-> id, name |-> "Tool", length |-> "1.5", depth |-> "1200",
   inner_diameter |-> "2.0", outer_diameter |-> "4.5", mapped_name |-> mapped]
MappedNames == RegistryNames \cup {None}   \* null: the extraction found no official name
Records == {ComponentRecord(id, mapped) : id \in ItemIds, mapped \in MappedNames}
ComponentLists(longest) == UNION {[1..n -> Records] : n \in 0..longest}

\* The JSON document: a dictionary, here a function on the keys it holds.
RequiredKeys == {"well_name", "components", "end_of_tailpipe_depth"}
UnitKeys == {"length_unit", "depth_unit", "inner_diameter_unit", "outer_diameter_unit"}
EmptyDict == [k \in {} |-> None]
UnitProfiles ==
  { [k \in UnitKeys |-> "ft"],
    [k \in UnitKeys |-> None],
    EmptyDict,
    [k \in {"length_unit", "depth_unit", "inner_diameter_unit"} |->
       IF k = "depth_unit" THEN None ELSE IF k = "length_unit" THEN "" ELSE "in"] }
WellNames == {"Acracia # 1", "Well-2"}
JsonDoc(present, units, well, comps) ==
  [k \in present \cup DOMAIN units |->
     IF k = "well_name" THEN well
     ELSE IF k = "components" THEN comps
     ELSE IF k = "end_of_tailpipe_depth" THEN "9000"
     ELSE units[k]]
JsonDocs(unitChoices, wellChoices, longest) ==
  {JsonDoc(present, units, well, comps) :
     present \in SUBSET RequiredKeys, units \in unitChoices,
     well \in wellChoices, comps \in ComponentLists(longest)}

\* The files of dhd_folder: base name, extension, and the image inside.
File(stem, ext, w, h) == [stem |-> stem, ext |-> ext, width |-> w, height |-> h]
Files == {File("packer", ".png", 40, 100), File("bit", ".png", 7, 3),
          File("bit", ".jpg", 40, 100)}
Folders == SUBSET Files

Max(a, b) == IF a >= b THEN a ELSE b

VARIABLES
  \* ---- the world outside the program ----
  json,            \* the document at json_path
  folder,          \* the files of dhd_folder
  fault,           \* what fails in this run: "none", "ocr", "template", "disk"
  png,             \* file at dhd_image_output_path: <<>> when absent, else <<image>>
  xlsx,            \* file at output_path: <<>> when absent, else <<workbook>>
  \* ---- stack_dhd ----
  order, mapping, gap_pixels, skip_missing,  \* arguments
  spc,             \* position in stack_dhd
  i,               \* index of pass 1 in order (1-based; next label)
  items, max_w, total_h,
  canvas,          \* <<>> before Image.new, then <<size of the canvas>>
  y,               \* cursor of pass 2
  j,               \* index of pass 2 in items
  pasted,          \* alpha_composite calls so far: [x, y, width, height]
  raised,          \* <<>>, or <<the exception stack_dhd raised>>
  \* ---- make_component_dict ----
  keep_none,       \* argument
  mpc,             \* position in make_component_dict
  mi,              \* index of the next row of data["components"]
  d,               \* the dict under construction: pairs <<key, value>> in insertion order
  mraised,         \* <<>>, or <<the exception raised>>
  \* ---- create_dhd_excel ----
  xpc,             \* position in create_dhd_excel
  xi,              \* index of the next component (the code's i, 0-based)
  ws,              \* the sheet: a function from <<row, column>> to the cell's value
  output_path,     \* <<>> before line 31, then <<path>>
  xraised,         \* <<>>, or <<the exception raised>>
  \* ---- convert_DHD_report_to_excel ----
  ppc,             \* position in the orchestrator ("none": not running)
  started,         \* the stages started so far, in order
  completed,       \* the stages that returned normally, in order
  praised,         \* <<>>, or <<the exception that ended the run>>
  excel_output_path, component_output, image_map

envVars == <<json, folder, fault, png, xlsx>>
stackVars == <<order, mapping, gap_pixels, skip_missing, spc, i,
               items, max_w, total_h, canvas, y, j, pasted, raised>>
dictVars == <<keep_none, mpc, mi, d, mraised>>
excelVars == <<xpc, xi, ws, output_path, xraised>>
pipeVars == <<ppc, started, completed, praised, excel_output_path,
              component_output, image_map>>

vars == <<envVars, stackVars, dictVars, excelVars, pipeVars>>

KeyError(label) == [type |-> "KeyError", arg |-> label]
IOError == [type |-> "OSError", arg |-> None]

\* ------------------------------------------------------------------------
\* stack_dhd
\* ------------------------------------------------------------------------
\* A resolved unit of the items list: ('gap', gap_pixels) or ('img', img).
GapUnit(g) == [kind |-> "gap", width |-> 0, height |-> g]
\* Image.open(src).convert("RGBA") / src.copy().convert("RGBA"): same size.
OpenRGBA(src) == [width |-> src.width, height |-> src.height]
ImgUnit(img) == [kind |-> "img", width |-> img.width, height |-> img.height]

\* Mutants of the pass-1 loop body: a spacer that adds no height; the last
\* image's width instead of the widest; a missing name laid out as a spacer;
\* a missing name skipped whatever skip_missing says.
Pass1Body_GapNotCounted(m, label, map, gap, skip) ==
  IF label = None
    THEN [m EXCEPT !.items = Append(@, GapUnit(gap))]
    ELSE IF label \notin DOMAIN map
      THEN IF skip THEN m ELSE [m EXCEPT !.raised = <<KeyError(label)>>]
      ELSE LET img == OpenRGBA(map[label]) IN
           [m EXCEPT !.items = Append(@, ImgUnit(img)),
                     !.max_w = Max(@, img.width),
                     !.total_h = @ + img.height]
Pass1Body_LastWidth(m, label, map, gap, skip) ==
  IF label = None
    THEN [m EXCEPT !.items = Append(@, GapUnit(gap)),
                   !.total_h = @ + gap]
    ELSE IF label \notin DOMAIN map
      THEN IF skip THEN m ELSE [m EXCEPT !.raised = <<KeyError(label)>>]
      ELSE LET img == OpenRGBA(map[label]) IN
           [m EXCEPT !.items = Append(@, ImgUnit(img)),
                     !.max_w = img.width,
                     !.total_h = @ + img.height]
Pass1Body_MissingAsGap(m, label, map, gap, skip) ==
  IF label = None \/ (label \notin DOMAIN map /\ skip)
    THEN [m EXCEPT !.items = Append(@, GapUnit(gap)),
                   !.total_h = @ + gap]
    ELSE IF label \notin DOMAIN map
      THEN [m EXCEPT !.raised = <<KeyError(label)>>]
      ELSE LET img == OpenRGBA(map[label]) IN
           [m EXCEPT !.items = Append(@, ImgUnit(img)),
                     !.max_w = Max(@, img.width),
                     !.total_h = @ + img.height]
Pass1Body_AlwaysSkip(m, label, map, gap, skip) ==
  IF label = None
    THEN [m EXCEPT !.items = Append(@, GapUnit(gap)),
                   !.total_h = @ + gap]
    ELSE IF label \notin DOMAIN map
      THEN m
      ELSE LET img == OpenRGBA(map[label]) IN
           [m EXCEPT !.items = Append(@, ImgUnit(img)),
                     !.max_w = Max(@, img.width),
                     !.total_h = @ + img.height]

\* One iteration of the pass-1 loop body on the measuring state
\* m = [items, max_w, total_h, raised].
Pass1Body(m, label, map, gap, skip) ==
  IF label = None
    THEN [m EXCEPT !.items = Append(@, GapUnit(gap)),
                   !.total_h = @ + gap]
    ELSE IF label \notin DOMAIN map
      THEN IF skip THEN m ELSE [m EXCEPT !.raised = <<KeyError(label)>>]
      ELSE LET img == OpenRGBA(map[label]) IN
           [m EXCEPT !.items = Append(@, ImgUnit(img)),
                     !.max_w = Max(@, img.width),
                     !.total_h = @ + img.height]

\* Mutant of the alignment: the dictionary's 'right' entry.
CenterX_Right(mw, img) == mw - img.width

\* x = {'left': ..., 'center': (max_w - img.width) // 2, 'right': ...}['center']
CenterX(mw, img) == (mw - img.width) \div 2

\* One iteration of the pass-2 loop body on the painting state p = [y, pasted].
Pass2Body(p, unit, mw) ==
  IF unit.kind = "gap"
    THEN [p EXCEPT !.y = @ + unit.height]
    ELSE [p EXCEPT !.pasted = Append(@, [x |-> CenterX(mw, unit), y |-> p.y,
                                         width |-> unit.width,
                                         height |-> unit.height]),
                   !.y = @ + unit.height]

\* stack_dhd as a function of its arguments: pass 1 over the whole order,
\* the canvas, pass 2 over the whole items list, the save.
RECURSIVE Pass1(_, _, _, _, _)
Pass1(m, o, map, gap, skip) ==
  IF o = <<>> \/ m.raised # <<>> THEN m
  ELSE Pass1(Pass1Body(m, Head(o), map, gap, skip), Tail(o), map, gap, skip)
RECURSIVE Pass2(_, _, _)
Pass2(p, its, mw) ==
  IF its = <<>> THEN p ELSE Pass2(Pass2Body(p, Head(its), mw), Tail(its), mw)
stack_dhd(o, map, gap, skip, disk_ok, file) ==
  LET m == Pass1([items |-> <<>>, max_w |-> 1, total_h |-> 0, raised |-> <<>>],
                 o, map, gap, skip)
      p == Pass2([y |-> 0, pasted |-> <<>>], m.items, m.max_w)
      size == [width |-> m.max_w, height |-> m.total_h]
  IN IF m.raised # <<>>
       THEN [raised |-> m.raised, canvas |-> <<>>, pasted |-> <<>>, png |-> file]
     ELSE IF ~disk_ok
       THEN [raised |-> <<IOError>>, canvas |-> <<size>>, pasted |-> p.pasted,
             png |-> file]
     ELSE [raised |-> <<>>, canvas |-> <<size>>, pasted |-> p.pasted,
           png |-> <<[size |-> size, pasted |-> p.pasted]>>]

\* items, max_w, total_h = [], 1, 0
StackEnter(o, map, gap, skip) ==
  /\ order' = o /\ mapping' = map /\ gap_pixels' = gap /\ skip_missing' = skip
  /\ spc' = "pass1" /\ i' = 1
  /\ items' = <<>> /\ max_w' = 1 /\ total_h' = 0
  /\ canvas' = <<>> /\ y' = 0 /\ j' = 1 /\ pasted' = <<>> /\ raised' = <<>>

Measuring == [items |-> items, max_w |-> max_w, total_h |-> total_h, raised |-> raised]

Pass1Apply(label) ==
  LET m == Pass1Body(Measuring, label, mapping, gap_pixels, skip_missing) IN
  /\ items' = m.items /\ max_w' = m.max_w /\ total_h' = m.total_h
  /\ raised' = m.raised
  /\ IF m.raised # <<>> THEN spc' = "raised" /\ i' = i
                        ELSE spc' = "pass1" /\ i' = i + 1
  /\ UNCHANGED <<order, mapping, gap_pixels, skip_missing, canvas, y, j, pasted>>
  /\ UNCHANGED <<envVars, dictVars, excelVars, pipeVars>>

\* for label in order: if label is None: ... continue
Pass1Spacer ==
  /\ spc = "pass1" /\ i <= Len(order)
  /\ order[i] = None
  /\ Pass1Apply(order[i])

\* if label not in mapping: if skip_missing: continue
Pass1Skip ==
  /\ spc = "pass1" /\ i <= Len(order)
  /\ order[i] # None /\ order[i] \notin DOMAIN mapping /\ skip_missing
  /\ Pass1Apply(order[i])

\* if label not in mapping: raise KeyError(label)
Pass1Raise ==
  /\ spc = "pass1" /\ i <= Len(order)
  /\ order[i] # None /\ order[i] \notin DOMAIN mapping /\ ~skip_missing
  /\ Pass1Apply(order[i])

\* src = mapping[label]; img = ...; items.append(('img', img)); ...
Pass1Image ==
  /\ spc = "pass1" /\ i <= Len(order)
  /\ order[i] # None /\ order[i] \in DOMAIN mapping
  /\ Pass1Apply(order[i])

\* canvas = Image.new("RGBA", (max_w, total_h), (255, 255, 255, 0)); y = 0
NewCanvas ==
  /\ spc = "pass1" /\ i > Len(order)
  /\ canvas' = <<[width |-> max_w, height |-> total_h]>>
  /\ y' = 0 /\ j' = 1
  /\ spc' = "pass2"
  /\ UNCHANGED <<order, mapping, gap_pixels, skip_missing, i,
                 items, max_w, total_h, pasted, raised>>
  /\ UNCHANGED <<envVars, dictVars, excelVars, pipeVars>>

Painting == [y |-> y, pasted |-> pasted]

Pass2Apply(unit) ==
  LET p == Pass2Body(Painting, unit, max_w) IN
  /\ y' = p.y /\ pasted' = p.pasted /\ j' = j + 1
  /\ UNCHANGED <<order, mapping, gap_pixels, skip_missing, spc, i,
                 items, max_w, total_h, canvas, raised>>
  /\ UNCHANGED <<envVars, dictVars, excelVars, pipeVars>>

\* for kind, obj in items: if kind == 'gap': y += obj
Pass2Gap ==
  /\ spc = "pass2" /\ j <= Len(items)
  /\ items[j].kind = "gap"
  /\ Pass2Apply(items[j])

\* else: canvas.alpha_composite(img, (x, y)); y += img.height
Pass2Paste ==
  /\ spc = "pass2" /\ j <= Len(items)
  /\ items[j].kind = "img"
  /\ Pass2Apply(items[j])

\* canvas.save(dhd_image_output_path)
SaveCanvas ==
  /\ spc = "pass2" /\ j > Len(items)
  /\ fault # "disk"
  /\ png' = <<[size |-> canvas[1], pasted |-> pasted]>>
  /\ spc' = "returned"
  /\ UNCHANGED <<order, mapping, gap_pixels, skip_missing, i,
                 items, max_w, total_h, canvas, y, j, pasted, raised>>
  /\ UNCHANGED <<json, folder, fault, xlsx, dictVars, excelVars, pipeVars>>

\* canvas.save(dhd_image_output_path) on a path that cannot be written
SaveCanvasFails ==
  /\ spc = "pass2" /\ j > Len(items)
  /\ fault = "disk"
  /\ raised' = <<IOError>>
  /\ spc' = "raised"
  /\ UNCHANGED <<order, mapping, gap_pixels, skip_missing, i,
                 items, max_w, total_h, canvas, y, j, pasted>>
  /\ UNCHANGED <<envVars, dictVars, excelVars, pipeVars>>

StackNext ==
  \/ Pass1Spacer \/ Pass1Skip \/ Pass1Raise \/ Pass1Image
  \/ NewCanvas \/ Pass2Gap \/ Pass2Paste \/ SaveCanvas \/ SaveCanvasFails

\* ------------------------------------------------------------------------
\* make_component_dict
\* ------------------------------------------------------------------------
\* Mutant of the dict assignment: the first value of a key stays.
DictSet_FirstWins(dct, k, v) ==
  IF \E n \in 1..Len(dct) : dct[n][1] = k THEN dct ELSE Append(dct, <<k, v>>)

\* dct[k] = v on a dict that keeps insertion order: an existing key keeps its
\* place and takes the new value, a new key goes last.
DictSet(dct, k, v) ==
  IF \E n \in 1..Len(dct) : dct[n][1] = k
    THEN [n \in 1..Len(dct) |-> IF dct[n][1] = k THEN <<k, v>> ELSE dct[n]]
    ELSE Append(dct, <<k, v>>)

DictKeys(dct) == [n \in 1..Len(dct) |-> dct[n][1]]
\* list(dct.values())
DictValues(dct) == [n \in 1..Len(dct) |-> dct[n][2]]

\* the generator's condition: if keep_none or row["item_id"] is not None
KeepsRow(row, keep) == keep \/ row["item_id"] # None

\* data = read_json(json_path)
DictEnter(keep) ==
  /\ keep_none' = keep /\ mpc' = "read" /\ mi' = 1 /\ d' = <<>> /\ mraised' = <<>>

\* for row in data["components"]  -- the key is absent
DictNoComponents ==
  /\ mpc = "read" /\ "components" \notin DOMAIN json
  /\ mraised' = <<KeyError("components")>> /\ mpc' = "raised"
  /\ UNCHANGED <<keep_none, mi, d>>
  /\ UNCHANGED <<envVars, stackVars, excelVars, pipeVars>>

\* for row in data["components"]
DictIterate ==
  /\ mpc = "read" /\ "components" \in DOMAIN json
  /\ mpc' = "rows"
  /\ UNCHANGED <<keep_none, mi, d, mraised>>
  /\ UNCHANGED <<envVars, stackVars, excelVars, pipeVars>>

\* a row the generator's condition drops
DictFiltered ==
  /\ mpc = "rows" /\ mi <= Len(json["components"])
  /\ ~KeepsRow(json["components"][mi], keep_none)
  /\ mi' = mi + 1
  /\ UNCHANGED <<keep_none, mpc, d, mraised>>
  /\ UNCHANGED <<envVars, stackVars, excelVars, pipeVars>>

\* {item_id: mapped for item_id, mapped in pairs}: one pair
DictPut ==
  /\ mpc = "rows" /\ mi <= Len(json["components"])
  /\ LET row == json["components"][mi] IN
       /\ KeepsRow(row, keep_none)
       /\ d' = DictSet(d, row["item_id"], row["mapped_name"])
  /\ mi' = mi + 1
  /\ UNCHANGED <<keep_none, mpc, mraised>>
  /\ UNCHANGED <<envVars, stackVars, excelVars, pipeVars>>

\* return {...}
DictReturn ==
  /\ mpc = "rows" /\ mi > Len(json["components"])
  /\ mpc' = "returned"
  /\ UNCHANGED <<keep_none, mi, d, mraised>>
  /\ UNCHANGED <<envVars, stackVars, excelVars, pipeVars>>

DictNext ==
  \/ DictNoComponents \/ DictIterate \/ DictFiltered \/ DictPut \/ DictReturn

\* ------------------------------------------------------------------------
\* slugify
\* ------------------------------------------------------------------------
\* The characters of the well names of the model.
Chars(text) ==
  IF text = "Acracia # 1"
    THEN <<"A", "c", "r", "a", "c", "i", "a", " ", "#", " ", "1">>
    ELSE <<"W", "e", "l", "l", "-", "2">>

LowerCase == {"a", "c", "e", "i", "l", "r", "w"}
UpperCase == {"A", "W"}
Digits == {"1", "2"}
IsWordChar(c) == c \in LowerCase \cup UpperCase \cup Digits \cup {"_"}
IsSpace(c) == c = " "
IsSeparator(c) == IsSpace(c) \/ c = "-"
IsAscii(c) == IsWordChar(c) \/ IsSeparator(c) \/ c = "#"
ToLower(c) == IF c = "A" THEN "a" ELSE IF c = "W" THEN "w" ELSE c

\* re.sub(r"[^\w\s-]", "", text)
KeepSlugChar(c) == IsWordChar(c) \/ IsSeparator(c)

RECURSIVE LStrip(_)
LStrip(t) == IF t # <<>> /\ IsSpace(Head(t)) THEN LStrip(Tail(t)) ELSE t
RECURSIVE RStrip(_)
RStrip(t) ==
  IF t # <<>> /\ IsSpace(t[Len(t)]) THEN RStrip(SubSeq(t, 1, Len(t) - 1)) ELSE t
RECURSIVE DropSeparators(_)
DropSeparators(t) ==
  IF t # <<>> /\ IsSeparator(Head(t)) THEN DropSeparators(Tail(t)) ELSE t
\* re.sub(r"[-\s]+", "_", text)
RECURSIVE CollapseSeparators(_)
CollapseSeparators(t) ==
  IF t = <<>> THEN <<>>
  ELSE IF IsSeparator(Head(t))
    THEN <<"_">> \o CollapseSeparators(DropSeparators(Tail(t)))
    ELSE <<Head(t)>> \o CollapseSeparators(Tail(t))

slugify(text) ==
  LET ascii == SelectSeq(Chars(text), IsAscii)
      kept == RStrip(LStrip(SelectSeq(ascii, KeepSlugChar)))
      lower == [n \in 1..Len(kept) |-> ToLower(kept[n])]
  IN CollapseSeparators(lower)

\* ------------------------------------------------------------------------
\* create_dhd_excel
\* ------------------------------------------------------------------------
\* dct.get(key, default)
Get(dct, key, default) == IF key \in DOMAIN dct THEN dct[key] ELSE default
\* v or ""
OrEmpty(v) == IF v = None \/ v = "" THEN "" ELSE v

\* ws.cell(r, c, v) / ws["D2"] = v
SetCell(sheet, r, c, v) ==
  [x \in DOMAIN sheet \cup {<<r, c>>} |-> IF x = <<r, c>> THEN v ELSE sheet[x]]

\* The template's first sheet: the table's header labels.
Template ==
  [x \in {<<5, 3>>, <<5, 4>>} |-> IF x = <<5, 3>> THEN "ITEM" ELSE "DESCRIPTION"]

\* units_map: key -> the column of its cell in row 5 (E5, F5, G5, H5)
UnitColumn(key) ==
  IF key = "length_unit" THEN 5
  ELSE IF key = "depth_unit" THEN 6
  ELSE IF key = "inner_diameter_unit" THEN 7 ELSE 8

\* for key, cell in units_map.items(): ws[cell] = data.get(key, "") or ""
WriteUnits(sheet, data) ==
  [x \in DOMAIN sheet \cup {<<5, UnitColumn(k)>> : k \in UnitKeys} |->
     IF \E k \in UnitKeys : x = <<5, UnitColumn(k)>>
       THEN LET k == CHOOSE k \in UnitKeys : x = <<5, UnitColumn(k)>>
            IN OrEmpty(Get(data, k, ""))
       ELSE sheet[x]]

\* the six ws.cell(r, c, comp.get(...)) of one component row
WriteComponent(sheet, r, comp) ==
  SetCell(SetCell(SetCell(SetCell(SetCell(SetCell(sheet,
    r, 3, Get(comp, "item_id", None)),
    r, 4, Get(comp, "name", None)),
    r, 5, Get(comp, "length", None)),
    r, 6, Get(comp, "depth", None)),
    r, 7, Get(comp, "inner_diameter", None)),
    r, 8, Get(comp, "outer_diameter", None))

\* end_row = start_row + len(data["components"]); the label goes to end_row + 1
TailRow(n) == (start_row + n) + 1

\* data = read_json(json_path)
ExcelEnter ==
  /\ xpc' = "path" /\ xi' = 0 /\ ws' = EmptyDict /\ output_path' = <<>>
  /\ xraised' = <<>>

\* output_path = f"/content/DHD_{slugify(data['well_name'])}.xlsx", key absent
ExcelNoWellName ==
  /\ xpc = "path" /\ "well_name" \notin DOMAIN json
  /\ xraised' = <<KeyError("well_name")>> /\ xpc' = "raised"
  /\ UNCHANGED <<xi, ws, output_path>>
  /\ UNCHANGED <<envVars, stackVars, dictVars, pipeVars>>

\* output_path = f"/content/DHD_{slugify(data['well_name'])}.xlsx"
ExcelPath ==
  /\ xpc = "path" /\ "well_name" \in DOMAIN json
  /\ output_path' = <<[prefix |-> "/content/DHD_", slug |-> slugify(json["well_name"]),
                       suffix |-> ".xlsx"]>>
  /\ xpc' = "load"
  /\ UNCHANGED <<xi, ws, xraised>>
  /\ UNCHANGED <<envVars, stackVars, dictVars, pipeVars>>

\* wb = openpyxl.load_workbook(template_path) on a template that cannot be loaded
ExcelLoadFails ==
  /\ xpc = "load" /\ fault = "template"
  /\ xraised' = <<IOError>> /\ xpc' = "raised"
  /\ UNCHANGED <<xi, ws, output_path>>
  /\ UNCHANGED <<envVars, stackVars, dictVars, pipeVars>>

\* wb = openpyxl.load_workbook(template_path); ws = wb.active; ws["D2"] = ...
ExcelLoad ==
  /\ xpc = "load" /\ fault # "template"
  /\ ws' = SetCell(Template, 2, 4, Get(json, "well_name", ""))
  /\ xpc' = "units"
  /\ UNCHANGED <<xi, output_path, xraised>>
  /\ UNCHANGED <<envVars, stackVars, dictVars, pipeVars>>

\* the units loop
ExcelUnits ==
  /\ xpc = "units"
  /\ ws' = WriteUnits(ws, json)
  /\ xpc' = "rows" /\ xi' = 0
  /\ UNCHANGED <<output_path, xraised>>
  /\ UNCHANGED <<envVars, stackVars, dictVars, pipeVars>>

\* for i, comp in enumerate(data.get("components", [])): r = start_row + i; ...
ExcelRow ==
  /\ xpc = "rows" /\ xi < Len(Get(json, "components", <<>>))
  /\ ws' = WriteComponent(ws, start_row + xi, json["components"][xi + 1])
  /\ xi' = xi + 1
  /\ UNCHANGED <<xpc, output_path, xraised>>
  /\ UNCHANGED <<envVars, stackVars, dictVars, pipeVars>>

\* Mutant: the length taken with the loop's default, data.get("components", []).
ExcelTailNoComponents_Defaulted ==
  /\ xpc = "rows" /\ xi >= Len(Get(json, "components", <<>>))
  /\ "components" \notin DOMAIN json
  /\ ws' = SetCell(ws, TailRow(Len(Get(json, "components", <<>>))), 4,
                   "END OF TAILPIPE")
  /\ xpc' = "save"
  /\ UNCHANGED <<xi, output_path, xraised>>
  /\ UNCHANGED <<envVars, stackVars, dictVars, pipeVars>>

\* end_row = start_row + len(data["components"]), key absent
ExcelTailNoComponents ==
  /\ xpc = "rows" /\ xi >= Len(Get(json, "components", <<>>))
  /\ "components" \notin DOMAIN json
  /\ xraised' = <<KeyError("components")>> /\ xpc' = "raised"
  /\ UNCHANGED <<xi, ws, output_path>>
  /\ UNCHANGED <<envVars, stackVars, dictVars, pipeVars>>

\* ws.cell(end_row + 1, 4, "END OF TAILPIPE");
\* ws.cell(end_row + 1, 6, data["end_of_tailpipe_depth"]), key absent
ExcelTailNoDepth ==
  /\ xpc = "rows" /\ xi >= Len(Get(json, "components", <<>>))
  /\ "components" \in DOMAIN json
  /\ "end_of_tailpipe_depth" \notin DOMAIN json
  /\ ws' = SetCell(ws, TailRow(Len(json["components"])), 4, "END OF TAILPIPE")
  /\ xraised' = <<KeyError("end_of_tailpipe_depth")>> /\ xpc' = "raised"
  /\ UNCHANGED <<xi, output_path>>
  /\ UNCHANGED <<envVars, stackVars, dictVars, pipeVars>>

\* the end-of-tailpipe label and depth (lines 61-68; the second write of the
\* depth goes to the same cell as the first)
ExcelTail ==
  /\ xpc = "rows" /\ xi >= Len(Get(json, "components", <<>>))
  /\ "components" \in DOMAIN json
  /\ "end_of_tailpipe_depth" \in DOMAIN json
  /\ LET row == TailRow(Len(json["components"])) IN
       ws' = SetCell(SetCell(SetCell(ws, row, 4, "END OF TAILPIPE"),
                             row, 6, json["end_of_tailpipe_depth"]),
                     row, 6, Get(json, "end_of_tailpipe_depth", None))
  /\ xpc' = "save"
  /\ UNCHANGED <<xi, output_path, xraised>>
  /\ UNCHANGED <<envVars, stackVars, dictVars, pipeVars>>

\* wb.save(output_path); return output_path
ExcelSave ==
  /\ xpc = "save"
  /\ xlsx' = <<[path |-> output_path[1], sheet |-> ws, images |-> <<>>]>>
  /\ xpc' = "returned"
  /\ UNCHANGED <<xi, ws, output_path, xraised>>
  /\ UNCHANGED <<json, folder, fault, png, stackVars, dictVars, pipeVars>>

ExcelNext ==
  \/ ExcelNoWellName \/ ExcelPath \/ ExcelLoadFails \/ ExcelLoad \/ ExcelUnits
  \/ ExcelRow \/ ExcelTailNoComponents \/ ExcelTailNoDepth \/ ExcelTail
  \/ ExcelSave

\* ------------------------------------------------------------------------
\* official_component_dict
\* ------------------------------------------------------------------------
\* os.path.splitext(os.path.basename(fp))[0]
Stem(file) == file.stem

\* The dict comprehension over glob.glob(folder/*): one entry per base name;
\* of several files with one base name the last in glob's (unspecified)
\* order stays, so any of them may.
official_component_dict(fld) ==
  {m \in [{Stem(f) : f \in fld} -> fld] : \A s \in DOMAIN m : Stem(m[s]) = s}

\* ------------------------------------------------------------------------
\* apply_dhd_on_excel
\* ------------------------------------------------------------------------
\* img = XLImage(png_path); img.width = img.width / 3; img.height = ...;
\* img.anchor = "A6".  A third is kept as the pair <<numerator, 3>>.
EmbeddedImage(file) ==
  [anchor |-> "A6", width |-> <<file.size.width, 3>>,
   height |-> <<file.size.height, 3>>, source |-> file]

\* load_workbook(excel_in); ws.add_image(img); wb.save(excel_out)
apply_dhd_on_excel(book, file) ==
  [book EXCEPT !.images = Append(@, EmbeddedImage(file))]

\* ------------------------------------------------------------------------
\* convert_DHD_report_to_excel
\* ------------------------------------------------------------------------
Stages == <<"OCR", "create_dhd_excel", "make_component_dict",
            "official_component_dict", "stack_dhd", "apply_dhd_on_excel">>

\* prompt = read_prompt(prompt_path); run_OCR(...) -- the external extraction
PipeOCR ==
  /\ ppc = "ocr" /\ fault # "ocr"
  /\ started' = Append(started, "OCR")
  /\ completed' = Append(completed, "OCR")
  /\ ppc' = "call_excel"
  /\ UNCHANGED <<praised, excel_output_path, component_output, image_map>>
  /\ UNCHANGED <<envVars, stackVars, dictVars, excelVars>>

PipeOCRFails ==
  /\ ppc = "ocr" /\ fault = "ocr"
  /\ started' = Append(started, "OCR")
  /\ praised' = <<IOError>>
  /\ ppc' = "aborted"
  /\ UNCHANGED <<completed, excel_output_path, component_output, image_map>>
  /\ UNCHANGED <<envVars, stackVars, dictVars, excelVars>>

\* excel_output_path = create_dhd_excel(json_path, template_path): the call
PipeCallExcel ==
  /\ ppc = "call_excel"
  /\ started' = Append(started, "create_dhd_excel")
  /\ ExcelEnter
  /\ ppc' = "in_excel"
  /\ UNCHANGED <<completed, praised, excel_output_path, component_output, image_map>>
  /\ UNCHANGED <<envVars, stackVars, dictVars>>

\* create_dhd_excel raised: nothing catches it
PipeExcelRaised ==
  /\ ppc = "in_excel" /\ xpc = "raised"
  /\ praised' = xraised
  /\ ppc' = "aborted"
  /\ UNCHANGED <<started, completed, excel_output_path, component_output, image_map>>
  /\ UNCHANGED <<envVars, stackVars, dictVars, excelVars>>

\* create_dhd_excel returned; d = make_component_dict(json_path): the call
PipeCallDict ==
  /\ ppc = "in_excel" /\ xpc = "returned"
  /\ excel_output_path' = output_path
  /\ completed' = Append(completed, "create_dhd_excel")
  /\ started' = Append(started, "make_component_dict")
  /\ DictEnter(TRUE)
  /\ ppc' = "in_dict"
  /\ UNCHANGED <<praised, component_output, image_map>>
  /\ UNCHANGED <<envVars, stackVars, excelVars>>

\* make_component_dict returned; component_output = list(d.values());
\* image_map = official_component_dict(dhd_folder)
PipeRegistry ==
  /\ ppc = "in_dict" /\ mpc = "returned"
  /\ component_output' = DictValues(d)
  /\ completed' = completed \o <<"make_component_dict", "official_component_dict">>
  /\ started' = Append(started, "official_component_dict")
  /\ image_map' \in official_component_dict(folder)
  /\ ppc' = "call_stack"
  /\ UNCHANGED <<praised, excel_output_path>>
  /\ UNCHANGED <<envVars, stackVars, dictVars, excelVars>>

\* stack_dhd(component_output, image_map, dhd_image_path, gap_pixels=8): the call
PipeCallStack ==
  /\ ppc = "call_stack"
  /\ started' = Append(started, "stack_dhd")
  /\ StackEnter(component_output, image_map, PipelineGap, TRUE)
  /\ ppc' = "in_stack"
  /\ UNCHANGED <<completed, praised, excel_output_path, component_output, image_map>>
  /\ UNCHANGED <<envVars, dictVars, excelVars>>

\* stack_dhd raised: nothing catches it
PipeStackRaised ==
  /\ ppc = "in_stack" /\ spc = "raised"
  /\ praised' = raised
  /\ ppc' = "aborted"
  /\ UNCHANGED <<started, completed, excel_output_path, component_output, image_map>>
  /\ UNCHANGED <<envVars, stackVars, dictVars, excelVars>>

\* Mutant: the embedding runs whether stack_dhd returned or raised.
PipeApply_AfterFailure ==
  /\ ppc = "in_stack" /\ spc \in {"returned", "raised"}
  /\ started' = Append(started, "apply_dhd_on_excel")
  /\ IF xlsx # <<>> /\ <<xlsx[1].path>> = excel_output_path /\ png # <<>>
       THEN /\ xlsx' = <<apply_dhd_on_excel(xlsx[1], png[1])>>
            /\ completed' = completed \o <<"stack_dhd", "apply_dhd_on_excel">>
            /\ ppc' = "done"
            /\ UNCHANGED praised
       ELSE /\ praised' = <<IOError>>
            /\ completed' = Append(completed, "stack_dhd")
            /\ ppc' = "aborted"
            /\ UNCHANGED xlsx
  /\ UNCHANGED <<excel_output_path, component_output, image_map>>
  /\ UNCHANGED <<json, folder, fault, png, stackVars, dictVars, excelVars>>

\* stack_dhd returned; apply_dhd_on_excel(excel_in, excel_out, dhd_image_path)
\* with excel_out = excel_in = excel_output_path
PipeApply ==
  /\ ppc = "in_stack" /\ spc = "returned"
  /\ started' = Append(started, "apply_dhd_on_excel")
  /\ IF xlsx # <<>> /\ <<xlsx[1].path>> = excel_output_path /\ png # <<>>
       THEN /\ xlsx' = <<apply_dhd_on_excel(xlsx[1], png[1])>>
            /\ completed' = completed \o <<"stack_dhd", "apply_dhd_on_excel">>
            /\ ppc' = "done"
            /\ UNCHANGED praised
       ELSE /\ praised' = <<IOError>>
            /\ completed' = Append(completed, "stack_dhd")
            /\ ppc' = "aborted"
            /\ UNCHANGED xlsx
  /\ UNCHANGED <<excel_output_path, component_output, image_map>>
  /\ UNCHANGED <<json, folder, fault, png, stackVars, dictVars, excelVars>>

\* The orchestrator's own steps, and the steps of the functions it calls that
\* its arguments allow: it passes skip_missing=True (no KeyError from pass 1)
\* and keep_none=True (no row dropped), and create_dhd_excel has read
\* data["components"] before make_component_dict does.
PipeNext ==
  \/ PipeOCR \/ PipeOCRFails \/ PipeCallExcel \/ PipeExcelRaised \/ PipeCallDict
  \/ PipeRegistry \/ PipeCallStack \/ PipeStackRaised \/ PipeApply
  \/ ExcelNext
  \/ DictIterate \/ DictPut \/ DictReturn
  \/ Pass1Spacer \/ Pass1Skip \/ Pass1Image
  \/ NewCanvas \/ Pass2Gap \/ Pass2Paste \/ SaveCanvas \/ SaveCanvasFails

\* ------------------------------------------------------------------------
\* Initial states and specifications
\* ------------------------------------------------------------------------
StalePng == [size |-> [width |-> 5, height |-> 5], pasted |-> <<>>]
FullJson == JsonDoc(RequiredKeys, [k \in UnitKeys |-> "ft"], "Acracia # 1", <<>>)

StackIdle ==
  /\ order = <<>> /\ mapping = EmptyDict /\ gap_pixels = DefaultGap
  /\ skip_missing = TRUE
  /\ spc = "idle" /\ i = 1
  /\ items = <<>> /\ max_w = 1 /\ total_h = 0
  /\ canvas = <<>> /\ y = 0 /\ j = 1 /\ pasted = <<>> /\ raised = <<>>
DictIdle ==
  /\ keep_none = TRUE /\ mpc = "idle" /\ mi = 1 /\ d = <<>> /\ mraised = <<>>
ExcelIdle ==
  /\ xpc = "idle" /\ xi = 0 /\ ws = EmptyDict /\ output_path = <<>>
  /\ xraised = <<>>
PipeIdle ==
  /\ ppc = "none" /\ started = <<>> /\ completed = <<>> /\ praised = <<>>
  /\ excel_output_path = <<>> /\ component_output = <<>> /\ image_map = EmptyDict

\* stack_dhd called on its own with arbitrary arguments.
InitStack ==
  /\ json = FullJson /\ folder = {} /\ xlsx = <<>>
  /\ fault \in {"none", "disk"}
  /\ png = <<>>
  /\ order \in Orders
  /\ mapping \in Mappings
  /\ gap_pixels \in GapChoices
  /\ skip_missing \in BOOLEAN
  /\ spc = "pass1" /\ i = 1
  /\ items = <<>> /\ max_w = 1 /\ total_h = 0
  /\ canvas = <<>> /\ y = 0 /\ j = 1 /\ pasted = <<>> /\ raised = <<>>
  /\ DictIdle /\ ExcelIdle /\ PipeIdle

SpecStack == InitStack /\ [][StackNext]_vars

\* make_component_dict called on its own.
InitDict ==
  /\ json \in JsonDocs({[k \in UnitKeys |-> "ft"]}, {"Acracia # 1"}, MaxRows)
  /\ folder = {} /\ xlsx = <<>> /\ fault = "none" /\ png = <<>>
  /\ keep_none \in BOOLEAN
  /\ mpc = "read" /\ mi = 1 /\ d = <<>> /\ mraised = <<>>
  /\ StackIdle /\ ExcelIdle /\ PipeIdle

SpecDict == InitDict /\ [][DictNext]_vars

\* create_dhd_excel called on its own.
InitExcel ==
  /\ json \in JsonDocs(UnitProfiles, WellNames, MaxComps)
  /\ folder = {} /\ xlsx = <<>> /\ png = <<>>
  /\ fault \in {"none", "template"}
  /\ xpc = "path" /\ xi = 0 /\ ws = EmptyDict /\ output_path = <<>>
  /\ xraised = <<>>
  /\ StackIdle /\ DictIdle /\ PipeIdle

SpecExcel == InitExcel /\ [][ExcelNext]_vars

\* convert_DHD_report_to_excel; json is the document the extraction writes.
InitPipe ==
  /\ json \in JsonDocs({[k \in UnitKeys |-> "ft"]}, {"Acracia # 1"}, MaxComps)
  /\ folder \in Folders
  /\ fault \in {"none", "ocr", "template", "disk"}
  /\ png \in {<<>>, <<StalePng>>}
  /\ xlsx = <<>>
  /\ ppc = "ocr" /\ started = <<>> /\ completed = <<>> /\ praised = <<>>
  /\ excel_output_path = <<>> /\ component_output = <<>> /\ image_map = EmptyDict
  /\ StackIdle /\ DictIdle /\ ExcelIdle

SpecPipe == InitPipe /\ [][PipeNext]_vars

\* ------------------------------------------------------------------------
\* Properties
\* ------------------------------------------------------------------------
Range(s) == {s[n] : n \in 1..Len(s)}
IsPrefix(s, t) == Len(s) <= Len(t) /\ \A n \in 1..Len(s) : s[n] = t[n]
IsMissing(label, map) == label # None /\ label \notin DOMAIN map
AllPresent(o, map) == \A n \in 1..Len(o) : ~IsMissing(o[n], map)
Spacers(o) == Cardinality({n \in 1..Len(o) : o[n] = None})
RECURSIVE ImageHeights(_, _)
ImageHeights(o, map) ==
  IF o = <<>> THEN 0
  ELSE (IF Head(o) \in DOMAIN map THEN map[Head(o)].height ELSE 0)
       + ImageHeights(Tail(o), map)
ResolvedWidths(o, map) ==
  {map[o[n]].width : n \in {k \in 1..Len(o) : o[k] \in DOMAIN map}}
MaxOf(S) == CHOOSE w \in S : \A v \in S : v <= w
StackResult == [raised |-> raised, canvas |-> canvas, pasted |-> pasted, png |-> png]
StackEnded == spc \in {"returned", "raised"}

\* C1: for a non-empty order whose names are all in mapping, the canvas is as
\* high as the heights of the images order refers to, once per occurrence,
\* plus gap_pixels for every spacer of order.
C1_CanvasHeight ==
  (canvas # <<>> /\ order # <<>> /\ AllPresent(order, mapping)) =>
    canvas[1].height = ImageHeights(order, mapping) + gap_pixels * Spacers(order)

\* A returned call whose order repeats a registered name and ends in a spacer.
C1_Witness ==
  /\ spc = "returned" /\ Len(order) = 3 /\ gap_pixels = DefaultGap
  /\ order[1] \in DOMAIN mapping /\ order[2] = order[1] /\ order[3] = None

\* C2: the canvas is as wide as the widest resolved image, or 1 when no image
\* is resolved; a spacer-only order gives width 1 and the sum of the gaps.
C2_CanvasWidth ==
  canvas # <<>> =>
    /\ canvas[1].width = IF ResolvedWidths(order, mapping) = {} THEN 1
                         ELSE MaxOf(ResolvedWidths(order, mapping))
    /\ (\A n \in 1..Len(order) : order[n] = None) =>
         canvas[1] = [width |-> 1, height |-> gap_pixels * Len(order)]

\* A call that resolved images of two widths, the wider one first.
C2_Witness ==
  /\ spc = "returned" /\ Len(order) >= 2
  /\ order[1] \in DOMAIN mapping /\ order[2] \in DOMAIN mapping
  /\ mapping[order[1]].width > mapping[order[2]].width

\* C3: with skip_missing=True a call ends as the call on the order without
\* its missing names ends: same canvas, same pasted images at the same
\* places, same saved file.
C3_SkipMissing ==
  (skip_missing /\ StackEnded) =>
    StackResult =
      stack_dhd(SelectSeq(order, LAMBDA l : ~IsMissing(l, mapping)), mapping,
                gap_pixels, TRUE, fault # "disk", <<>>)

\* A returned call that skipped a missing name between other units.
C3_Witness ==
  /\ spc = "returned" /\ skip_missing /\ Len(order) = 3
  /\ IsMissing(order[2], mapping)
  /\ order[1] \in DOMAIN mapping /\ order[3] \in DOMAIN mapping

FirstMissing(o, map) ==
  CHOOSE n \in 1..Len(o) :
    IsMissing(o[n], map) /\ \A k \in 1..(n - 1) : ~IsMissing(o[k], map)

\* C4: with skip_missing=False and a name of order missing from mapping, the
\* call never gets past the first such name: it raises KeyError of that name
\* there, in pass 1, with no canvas created, nothing pasted, nothing saved.
C4_FailFast ==
  (~skip_missing /\ ~AllPresent(order, mapping)) =>
    /\ canvas = <<>> /\ pasted = <<>> /\ png = <<>>
    /\ spc \in {"pass1", "raised"}
    /\ i <= FirstMissing(order, mapping)
    /\ spc = "raised" =>
         /\ i = FirstMissing(order, mapping)
         /\ raised = <<KeyError(order[FirstMissing(order, mapping)])>>

\* A call that raised at a missing name that comes last, after an image.
C4_Witness ==
  /\ spc = "raised" /\ ~skip_missing /\ Len(order) = 3 /\ Len(items) = 2
  /\ raised = <<KeyError(order[3])>>

\* The index in items of the k-th image unit.
ImageIndex(k) ==
  CHOOSE n \in 1..Len(items) :
    /\ items[n].kind = "img"
    /\ Cardinality({m \in 1..n : items[m].kind = "img"}) = k
RECURSIVE HeightsBefore(_)
HeightsBefore(n) == IF n <= 1 THEN 0 ELSE items[n - 1].height + HeightsBefore(n - 1)

FirstIndex(rows, k) ==
  CHOOSE n \in 1..Len(rows) :
    rows[n]["item_id"] = k /\ \A m \in 1..(n - 1) : rows[m]["item_id"] # k
LastIndex(rows, k) ==
  CHOOSE n \in 1..Len(rows) :
    rows[n]["item_id"] = k /\ \A m \in (n + 1)..Len(rows) : rows[m]["item_id"] # k

\* C6: the dict make_component_dict returns has the item_ids of the records
\* as keys (without None when keep_none=False, with it when keep_none=True
\* and a record has none), in the order of each key's first record, and each
\* key's value is the mapped_name of the last record with that key.
C6_ComponentDict ==
  mpc = "returned" =>
    LET rows == json["components"]
        ids == {rows[n]["item_id"] : n \in 1..Len(rows)}
        keys == IF keep_none THEN ids ELSE ids \ {None}
    IN /\ Range(DictKeys(d)) = keys
       /\ Len(d) = Cardinality(keys)
       /\ \A a \in 1..Len(d) : \A b \in (a + 1)..Len(d) :
            FirstIndex(rows, d[a][1]) < FirstIndex(rows, d[b][1])
       /\ \A a \in 1..Len(d) :
            d[a][2] = rows[LastIndex(rows, d[a][1])]["mapped_name"]

\* A returned call on three records, the first and the last with the same
\* item_id and different names, the second with no item_id.
C6_Witness ==
  /\ mpc = "returned" /\ keep_none /\ Len(json["components"]) = 3 /\ Len(d) = 2
  /\ json["components"][1]["item_id"] = json["components"][3]["item_id"]
  /\ json["components"][2]["item_id"] = None
  /\ json["components"][1]["mapped_name"] # json["components"][3]["mapped_name"]

\* C7: component i is in row start_row + i, columns 3..8, and the
\* "END OF TAILPIPE" label and the depth are in the next row, start_row + n.
C7_TailpipeRow ==
  xpc = "returned" =>
    LET rows == json["components"]  n == Len(json["components"]) IN
      /\ \A k \in 0..(n - 1) :
           /\ \A c \in 3..8 : <<start_row + k, c>> \in DOMAIN ws
           /\ ws[<<start_row + k, 3>>] = rows[k + 1]["item_id"]
           /\ ws[<<start_row + k, 4>>] = rows[k + 1]["name"]
           /\ ws[<<start_row + k, 5>>] = rows[k + 1]["length"]
           /\ ws[<<start_row + k, 6>>] = rows[k + 1]["depth"]
           /\ ws[<<start_row + k, 7>>] = rows[k + 1]["inner_diameter"]
           /\ ws[<<start_row + k, 8>>] = rows[k + 1]["outer_diameter"]
      /\ <<start_row + n, 4>> \in DOMAIN ws
      /\ <<start_row + n, 6>> \in DOMAIN ws
      /\ ws[<<start_row + n, 4>>] = "END OF TAILPIPE"
      /\ ws[<<start_row + n, 6>>] = json["end_of_tailpipe_depth"]

\* C8: with a required key absent create_dhd_excel raises the KeyError of an
\* absent required key, saves nothing and returns nothing; without well_name
\* it raises before the template is loaded; the unit keys alone never make it
\* fail, and an absent or null unit is written as the empty string.
C8_MissingField ==
  /\ ~(RequiredKeys \subseteq DOMAIN json) =>
       /\ xpc \notin {"save", "returned"} /\ xlsx = <<>>
       /\ (xpc = "raised" /\ fault # "template") =>
            \E k \in RequiredKeys \ DOMAIN json : xraised = <<KeyError(k)>>
  /\ "well_name" \notin DOMAIN json =>
       /\ xpc \in {"path", "raised"} /\ ws = EmptyDict
       /\ xpc = "raised" => xraised = <<KeyError("well_name")>>
  /\ (RequiredKeys \subseteq DOMAIN json /\ fault = "none") => xpc # "raised"
  /\ xpc = "returned" =>
       \A k \in UnitKeys :
         xlsx[1].sheet[<<5, UnitColumn(k)>>] =
           IF k \notin DOMAIN json THEN ""
           ELSE IF json[k] = None THEN "" ELSE json[k]

\* A call that raised for the absent components list after filling the header.
C8_Witness ==
  /\ xpc = "raised" /\ xraised = <<KeyError("components")>>
  /\ <<2, 4>> \in DOMAIN ws /\ "length_unit" \notin DOMAIN json

\* C9: the stages start in the order OCR, create_dhd_excel,
\* make_component_dict, official_component_dict, stack_dhd,
\* apply_dhd_on_excel, each after the one before it returned; a stage that
\* raises is the last one started; and apply_dhd_on_excel starts only with the
\* workbook and the stacked image saved by this run.
C9_Stages ==
  /\ IsPrefix(started, Stages)
  /\ IsPrefix(completed, started)
  /\ Len(started) <= Len(completed) + 1
  /\ (ppc = "aborted") <=> (praised # <<>>)
  /\ ppc = "aborted" => Len(completed) = Len(started) - 1
  /\ xpc \in {"path", "load", "units", "rows", "save"} =>
       (ppc = "in_excel" /\ Len(started) = 2)
  /\ mpc \in {"read", "rows"} => (ppc = "in_dict" /\ Len(started) = 3)
  /\ spc \in {"pass1", "pass2"} => (ppc = "in_stack" /\ Len(started) = 5)
  /\ "apply_dhd_on_excel" \in Range(started) =>
       /\ xpc = "returned" /\ spc = "returned"
       /\ xlsx # <<>> /\ xlsx[1].sheet = ws /\ <<xlsx[1].path>> = output_path
       /\ png = <<[size |-> canvas[1], pasted |-> pasted]>>

\* A run that went through all six stages and embedded an image it pasted.
C9_Witness ==
  /\ ppc = "done" /\ completed = Stages /\ pasted # <<>>
  /\ Len(xlsx[1].images) = 1

\* C10: the order handed to stack_dhd is the records' mapped_names, one per
\* record, in record order.
C10_OrderPerRecord ==
  ppc \in {"in_stack", "done"} =>
    order = [n \in 1..Len(json["components"]) |->
               json["components"][n]["mapped_name"]]

====
